---- MODULE Spec2Model ----
(***************************************************************************)
(* Model of mypackage/arch/lffd/blocks/detection.py : DetectionHead.       *)
(*                                                                         *)
(* Numbers.  Every image-space coordinate is stored DOUBLED (in half       *)
(* pixels), so that rf_size/2 (a true division in the source) is exact     *)
(* for odd rf_size: the source value v is stored as 2*v.  All values of    *)
(* the model are small integers, which float32 represents exactly.         *)
(* Regression logits are integers r; rf_normalizer*r = (rf_size/2)*r is    *)
(* stored doubled as rf_size*r.                                            *)
(*                                                                         *)
(* Indices are 0-based as in the source, except gt_boxes, a TLA+ sequence: *)
(* the source's gt_boxes[i] is gt_boxes[i+1] here.                         *)
(***************************************************************************)
EXTENDS Integers, Sequences, FiniteSets, TLC

\* ---- bounds of the model ------------------------------------------------
MaxFh     == 2
MaxFw     == 2
MaxBatch  == 2
MaxCells  == 8
MaxBoxes  == 2
MaxReg    == 3

\* ---- program constant ---------------------------------------------------
ratio == 5

\* head: the attributes of the constructed head; ctor: the arguments its
\* constructor was called with; op, args, ret: the last call on the head
VARIABLES head, ctor, op, args, ret

vars == <<head, ctor, op, args, ret>>

Min(a, b) == IF a <= b THEN a ELSE b
Max(a, b) == IF a >= b THEN a ELSE b

\* torch.clamp(v, lo, hi) = min(max(v, lo), hi)
Clamp(v, lo, hi) == Min(Max(v, lo), hi)

\* cells of a feature map, (row, col), and of a batch, (b, row, col)
Cells2(fh, fw) == (0 .. (fh - 1)) \X (0 .. (fw - 1))
Cells3(bs, fh, fw) == (0 .. (bs - 1)) \X (0 .. (fh - 1)) \X (0 .. (fw - 1))

\* torch.arange(n): the values 0 .. n-1; a negative end raises RuntimeError
\* ("upper bound and larger bound inconsistent with step sign")
ArangeRaises(n) == n < 0
Arange(n) == 0 .. (n - 1)

\* ---- DetectionHead.__init__ : the heads the model constructs -------------
Heads ==
    [ head_idx        : {0},
      rf_size         : {2, 3},
      rf_start_offset : {0, 1},
      rf_stride       : {1, 2},
      num_classes     : {1},
      lower_scale     : {2},
      upper_scale     : {3} ]

\* every argument tuple the constructor is called with, the invalid ones
\* included: rf_size <= 0, upper_scale <= lower_scale
CtorArgs ==
    [ head_idx        : {0},
      rf_size         : {-1, 0, 2},
      rf_start_offset : {0},
      rf_stride       : {1},
      num_classes     : {1},
      lower_scale     : {2, 3},
      upper_scale     : {2, 3} ]

\* __init__ stores head_idx, rf_size, rf_start_offset, rf_stride and
\* num_classes as given and hands lower_scale and upper_scale to the matcher;
\* it compares no argument with anything and has no raise
InitHead(p) ==
    [ raised |-> FALSE,
      head   |-> [ head_idx        |-> p.head_idx,
                   rf_size         |-> p.rf_size,
                   rf_start_offset |-> p.rf_start_offset,
                   rf_stride       |-> p.rf_stride,
                   num_classes     |-> p.num_classes,
                   lower_scale     |-> p.lower_scale,
                   upper_scale     |-> p.upper_scale ] ]

\* ---- DetectionHead.gen_rf_anchors ----------------------------------------
\* mutant: the max edge is moved by rf_size instead of rf_size/2
GenRfAnchorsWide(h, fmaph, fmapw, clip) ==
    [ raised |-> ArangeRaises(fmaph) \/ ArangeRaises(fmapw),
      rfs |-> [ c \in Arange(fmaph) \X Arange(fmapw) |->
                 <<2 * (c[2] * h.rf_stride + h.rf_start_offset) - h.rf_size,
                   2 * (c[1] * h.rf_stride + h.rf_start_offset) - h.rf_size,
                   2 * (c[2] * h.rf_stride + h.rf_start_offset) + 2 * h.rf_size,
                   2 * (c[1] * h.rf_stride + h.rf_start_offset) + 2 * h.rf_size>> ] ]

\* mutant: a negative size is treated as an empty range (numpy's arange)
GenRfAnchorsNoRaise(h, fmaph, fmapw, clip) ==
    [ raised |-> FALSE,
      rfs |-> [ c \in Arange(fmaph) \X Arange(fmapw) |-> <<0, 0, 0, 0>> ] ]

GenRfAnchors(h, fmaph, fmapw, clip) ==
    IF ArangeRaises(fmaph) \/ ArangeRaises(fmapw)
    THEN [ raised |-> TRUE, rfs |-> << >> ]
    ELSE
      LET \* y,x = torch.meshgrid(arange(fmaph), arange(fmapw)): y = row, x = col
          grid == Arange(fmaph) \X Arange(fmapw)
          \* rfs = stack([x,y]); rfs *= rf_stride; rfs += rf_start_offset
          cx(c) == c[2] * h.rf_stride + h.rf_start_offset
          cy(c) == c[1] * h.rf_stride + h.rf_start_offset
          \* rfs.repeat(1,1,2); [:2] -= rf_size/2; [2:] += rf_size/2  (doubled)
          box(c) == <<2 * cx(c) - h.rf_size, 2 * cy(c) - h.rf_size,
                      2 * cx(c) + h.rf_size, 2 * cy(c) + h.rf_size>>
          clipped(b) == <<Clamp(b[1], 0, 2 * fmapw * h.rf_stride),
                          Clamp(b[2], 0, 2 * fmaph * h.rf_stride),
                          Clamp(b[3], 0, 2 * fmapw * h.rf_stride),
                          Clamp(b[4], 0, 2 * fmaph * h.rf_stride)>>
      IN  [ raised |-> FALSE,
            rfs |-> [ c \in grid |-> IF clip THEN clipped(box(c)) ELSE box(c) ] ]

\* ---- DetectionHead.apply_bbox_regression ---------------------------------
\* reg_logits is [bs, fh, fw, data], data[<<b,row,col>>] a 4-tuple of logits

\* mutant: the max edges are decoded with addition
ApplyBboxRegressionPlus(h, reg_logits) ==
    LET fh == reg_logits.fh
        fw == reg_logits.fw
        rf_anchors == GenRfAnchors(h, fh, fw, FALSE).rfs
        ccx(c) == (rf_anchors[<<c[2], c[3]>>][1] + rf_anchors[<<c[2], c[3]>>][3]) \div 2
        ccy(c) == (rf_anchors[<<c[2], c[3]>>][2] + rf_anchors[<<c[2], c[3]>>][4]) \div 2
    IN  [ c \in DOMAIN reg_logits.data |->
            <<Clamp(ccx(c) - h.rf_size * reg_logits.data[c][1], 0, 2 * fw * h.rf_stride),
              Clamp(ccy(c) - h.rf_size * reg_logits.data[c][2], 0, 2 * fh * h.rf_stride),
              Clamp(ccx(c) + h.rf_size * reg_logits.data[c][3], 0, 2 * fw * h.rf_stride),
              Clamp(ccy(c) + h.rf_size * reg_logits.data[c][4], 0, 2 * fh * h.rf_stride)>> ]

\* mutant: the clamp of the y coordinates uses the width bound
ApplyBboxRegressionWBound(h, reg_logits) ==
    LET fh == reg_logits.fh
        fw == reg_logits.fw
        rf_anchors == GenRfAnchors(h, fh, fw, FALSE).rfs
        ccx(c) == (rf_anchors[<<c[2], c[3]>>][1] + rf_anchors[<<c[2], c[3]>>][3]) \div 2
        ccy(c) == (rf_anchors[<<c[2], c[3]>>][2] + rf_anchors[<<c[2], c[3]>>][4]) \div 2
    IN  [ c \in DOMAIN reg_logits.data |->
            <<Clamp(ccx(c) - h.rf_size * reg_logits.data[c][1], 0, 2 * fw * h.rf_stride),
              Clamp(ccy(c) - h.rf_size * reg_logits.data[c][2], 0, 2 * fw * h.rf_stride),
              Clamp(ccx(c) - h.rf_size * reg_logits.data[c][3], 0, 2 * fw * h.rf_stride),
              Clamp(ccy(c) - h.rf_size * reg_logits.data[c][4], 0, 2 * fw * h.rf_stride)>> ]

\* mutant: pred_boxes is the argument itself, not a clone of it
RegLogitsAfterAliased(h, reg_logits) ==
    [ reg_logits EXCEPT !.data =
        [ c \in DOMAIN reg_logits.data |->
            LET cx2 == 2 * (c[3] * h.rf_stride + h.rf_start_offset)
                cy2 == 2 * (c[2] * h.rf_stride + h.rf_start_offset)
            IN  <<Clamp(cx2 - h.rf_size * reg_logits.data[c][1], 0, 2 * reg_logits.fw * h.rf_stride),
                  Clamp(cy2 - h.rf_size * reg_logits.data[c][2], 0, 2 * reg_logits.fh * h.rf_stride),
                  Clamp(cx2 - h.rf_size * reg_logits.data[c][3], 0, 2 * reg_logits.fw * h.rf_stride),
                  Clamp(cy2 - h.rf_size * reg_logits.data[c][4], 0, 2 * reg_logits.fh * h.rf_stride)>> ] ]

\* the caller's reg_logits tensor after the call: pred_boxes is
\* reg_logits.clone() and every assignment of the method writes to
\* pred_boxes, so the argument keeps its values
RegLogitsAfter(h, reg_logits) == reg_logits

ApplyBboxRegression(h, reg_logits) ==
    LET \* fh,fw = reg_logits.shape[1:3]
        fh == reg_logits.fh
        fw == reg_logits.fw
        \* rf_anchors = self.gen_rf_anchors(fh, fw): clip defaults to False
        rf_anchors == GenRfAnchors(h, fh, fw, FALSE).rfs
        \* rf_normalizer = rf_size/2; doubled: rf_size
        rf_normalizer2 == h.rf_size
        \* rf_centers = (rf_anchors[:,:,:2] + rf_anchors[:,:,2:]) / 2
        ccx(c) == (rf_anchors[<<c[2], c[3]>>][1] + rf_anchors[<<c[2], c[3]>>][3]) \div 2
        ccy(c) == (rf_anchors[<<c[2], c[3]>>][2] + rf_anchors[<<c[2], c[3]>>][4]) \div 2
        r(c) == reg_logits.data[c]
    IN  [ c \in DOMAIN reg_logits.data |->
            <<Clamp(ccx(c) - rf_normalizer2 * r(c)[1], 0, 2 * fw * h.rf_stride),
              Clamp(ccy(c) - rf_normalizer2 * r(c)[2], 0, 2 * fh * h.rf_stride),
              Clamp(ccx(c) - rf_normalizer2 * r(c)[3], 0, 2 * fw * h.rf_stride),
              Clamp(ccy(c) - rf_normalizer2 * r(c)[4], 0, 2 * fh * h.rf_stride)>> ]

\* ---- LFFDMatcher (mypackage/utils/matcher.py), an external collaborator ---
\* Modelled from the specification, section 6: a cell is positive when its RF
\* center lies inside a ground-truth box whose scale is within
\* [lower_scale, upper_scale]; it is ignored when its RF center lies inside a
\* box whose scale is just outside the band (the gray zone).  The two
\* decisions are independent, so a cell can be both (compute_loss keeps
\* pos_mask and rpos_mask apart for that case).  Boxes are in pixels.
\* reg_targets are (center - edge)/rf_normalizer, stored as the numerator
\* over rf_size, zero where the cell is not positive.
FaceScale(box) == Max(box[3] - box[1], box[4] - box[2])

InBand(h, box) == h.lower_scale <= FaceScale(box) /\ FaceScale(box) <= h.upper_scale

InGray(h, box) ==
    \/ h.lower_scale - 1 <= FaceScale(box) /\ FaceScale(box) < h.lower_scale
    \/ h.upper_scale < FaceScale(box) /\ FaceScale(box) <= h.upper_scale + 1

\* the doubled center (x, y) of an anchor lies inside the box
CenterInside(a, box) ==
    LET cx2 == (a[1] + a[3]) \div 2
        cy2 == (a[2] + a[4]) \div 2
    IN  /\ 2 * box[1] <= cx2 /\ cx2 <= 2 * box[3]
        /\ 2 * box[2] <= cy2 /\ cy2 <= 2 * box[4]

Matcher(h, rf_anchors, gt, rf_normalizer2) ==
    LET hit(c)  == { k \in 1 .. Len(gt) : InBand(h, gt[k]) /\ CenterInside(rf_anchors[c], gt[k]) }
        gray(c) == { k \in 1 .. Len(gt) : InGray(h, gt[k]) /\ CenterInside(rf_anchors[c], gt[k]) }
        first(c) == gt[CHOOSE k \in hit(c) : \A j \in hit(c) : k <= j]
        cx2(c) == (rf_anchors[c][1] + rf_anchors[c][3]) \div 2
        cy2(c) == (rf_anchors[c][2] + rf_anchors[c][4]) \div 2
    IN  [ cls_mask    |-> [ c \in DOMAIN rf_anchors |-> hit(c) # {} ],
          reg_targets |-> [ c \in DOMAIN rf_anchors |->
                              IF hit(c) = {} THEN <<0, 0, 0, 0>>
                              ELSE <<cx2(c) - 2 * first(c)[1], cy2(c) - 2 * first(c)[2],
                                     cx2(c) - 2 * first(c)[3], cy2(c) - 2 * first(c)[4]>> ],
          ignore_mask |-> [ c \in DOMAIN rf_anchors |-> gray(c) # {} ] ]

\* ---- DetectionHead.build_targets -----------------------------------------
\* one pass of `for i in range(batch_size)` and the passes after it
RECURSIVE BuildLoop(_, _, _, _, _)
BuildLoop(h, rf_anchors, gt_boxes, i, t) ==
    IF i >= Len(gt_boxes) THEN t
    ELSE
      LET m == Matcher(h, rf_anchors, gt_boxes[i + 1], h.rf_size)
          cell(c) == <<c[2], c[3]>>
      IN  BuildLoop(h, rf_anchors, gt_boxes, i + 1,
            [ \* t_cls[i, cls_mask] = 1
              t_cls  |-> [ c \in DOMAIN t.t_cls |->
                             IF c[1] = i /\ m.cls_mask[cell(c)] THEN 1 ELSE t.t_cls[c] ],
              \* t_regs[i, :,:,:] = reg_targets
              t_regs |-> [ c \in DOMAIN t.t_regs |->
                             IF c[1] = i THEN m.reg_targets[cell(c)] ELSE t.t_regs[c] ],
              \* ignore[i, :,:] = ignore_mask
              ignore |-> [ c \in DOMAIN t.ignore |->
                             IF c[1] = i THEN m.ignore_mask[cell(c)] ELSE t.ignore[c] ] ])

\* mutant: the class mask is written to every image, not only to image i
RECURSIVE BuildLoopAllImages(_, _, _, _, _)
BuildLoopAllImages(h, rf_anchors, gt_boxes, i, t) ==
    IF i >= Len(gt_boxes) THEN t
    ELSE
      LET m == Matcher(h, rf_anchors, gt_boxes[i + 1], h.rf_size)
          cell(c) == <<c[2], c[3]>>
      IN  BuildLoopAllImages(h, rf_anchors, gt_boxes, i + 1,
            [ t_cls  |-> [ c \in DOMAIN t.t_cls |->
                             IF m.cls_mask[cell(c)] THEN 1 ELSE t.t_cls[c] ],
              t_regs |-> [ c \in DOMAIN t.t_regs |->
                             IF c[1] = i THEN m.reg_targets[cell(c)] ELSE t.t_regs[c] ],
              ignore |-> [ c \in DOMAIN t.ignore |->
                             IF c[1] = i THEN m.ignore_mask[cell(c)] ELSE t.ignore[c] ] ])

BuildTargetsAllImages(h, fh, fw, gt_boxes) ==
    LET cells == Cells3(Len(gt_boxes), fh, fw)
    IN  BuildLoopAllImages(h, GenRfAnchors(h, fh, fw, FALSE).rfs, gt_boxes, 0,
            [ t_cls  |-> [ c \in cells |-> 0 ],
              t_regs |-> [ c \in cells |-> <<0, 0, 0, 0>> ],
              ignore |-> [ c \in cells |-> FALSE ] ])

BuildTargets(h, fh, fw, gt_boxes) ==
    LET \* batch_size = len(gt_boxes); fh,fw = fmap
        batch_size == Len(gt_boxes)
        cells == Cells3(batch_size, fh, fw)
        \* rf_anchors = self.gen_rf_anchors(fh, fw)
        rf_anchors == GenRfAnchors(h, fh, fw, FALSE).rfs
    IN  BuildLoop(h, rf_anchors, gt_boxes, 0,
            [ t_cls  |-> [ c \in cells |-> 0 ],
              t_regs |-> [ c \in cells |-> <<0, 0, 0, 0>> ],
              ignore |-> [ c \in cells |-> FALSE ] ])

\* ---- DetectionHead.compute_loss ------------------------------------------
\* mutant: the ignore flag is not applied to the positives
PosMaskAll(target_cls, ignore) ==
    [ c \in DOMAIN target_cls |-> target_cls[c] = 1 ]

\* pos_mask = (target_cls == 1) & (~ignore)
PosMask(target_cls, ignore) ==
    [ c \in DOMAIN target_cls |-> target_cls[c] = 1 /\ ~ignore[c] ]

\* mutant: the regression mask is the classification's positive mask
RPosMaskNotIgnored(target_cls, ignore) ==
    [ c \in DOMAIN target_cls |-> target_cls[c] = 1 /\ ~ignore[c] ]

\* rpos_mask = target_cls == 1
RPosMask(target_cls, ignore) ==
    [ c \in DOMAIN target_cls |-> target_cls[c] = 1 ]

\* mutant: the negatives are every cell that is not ignored
NegMaskAny(target_cls, ignore) ==
    [ c \in DOMAIN target_cls |-> ~ignore[c] ]

\* neg_mask = (target_cls == 0) & (~ignore)
NegMask(target_cls, ignore) ==
    [ c \in DOMAIN target_cls |-> target_cls[c] = 0 /\ ~ignore[c] ]

Count(mask) == Cardinality({ c \in DOMAIN mask : mask[c] })

\* mutant: the ratio is not applied
NegativesAll(positives, neg_count, batch_size) ==
    IF positives <= 0 THEN batch_size ELSE neg_count

\* if positives <= 0: negatives = batch_size
\* else: negatives = min(neg_mask.sum(), ratio*positives)
Negatives(positives, neg_count, batch_size) ==
    IF positives <= 0 THEN batch_size ELSE Min(neg_count, ratio * positives)

\* neg_mask.view(-1): the flat index of cell (b, row, col)
Flat(c, fh, fw) == c[1] * fh * fw + c[2] * fw + c[3]

\* random_sample_selection (mypackage/utils/utils.py), an external
\* collaborator, modelled from the specification, section 6: uniform sampling without
\* replacement of min(k, |candidates|) indices; every outcome is possible.
RandomSampleSelection(population, select_n) ==
    { s \in SUBSET population : Cardinality(s) = Min(select_n, Cardinality(population)) }

\* F.binary_cross_entropy_with_logits over the selected cells (mean
\* reduction: the mean of no element is NaN)
ClsLoss(over) == [ kind |-> IF over = {} THEN "nan" ELSE "bce", over |-> over ]

\* mutant: no special case for an empty regression mask
RegLossNoGuard(rpos) == [ kind |-> IF rpos = {} THEN "nan" ELSE "mse", over |-> rpos ]

\* if rpos_mask.sum() <= 0: reg_loss = torch.tensor(0, requires_grad=True)
\* else: reg_loss = F.mse_loss(reg_logits[rpos_mask], target_regs[rpos_mask])
RegLoss(rpos) ==
    IF Cardinality(rpos) <= 0 THEN [ kind |-> "zero", over |-> {} ]
    ELSE [ kind |-> "mse", over |-> rpos ]

\* every outcome of compute_loss on logits of shape (batch_size, C, fh, fw)
ComputeLoss(h, batch_size, fh, fw, gt_boxes) ==
    LET t == BuildTargets(h, fh, fw, gt_boxes)
        pos_mask  == PosMask(t.t_cls, t.ignore)
        rpos_mask == RPosMask(t.t_cls, t.ignore)
        neg_mask  == NegMask(t.t_cls, t.ignore)
        positives == Count(pos_mask)
        negatives == Negatives(positives, Count(neg_mask), batch_size)
        \* ss, = torch.where(neg_mask.view(-1))
        ss == { Flat(c, fh, fw) : c \in { d \in DOMAIN neg_mask : neg_mask[d] } }
        cells == Cells3(batch_size, fh, fw)
    IN  { [ raised     |-> FALSE,
            target_cls |-> t.t_cls,
            ignore     |-> t.ignore,
            pos_mask   |-> pos_mask,
            rpos_mask  |-> rpos_mask,
            candidates |-> neg_mask,
            requested  |-> negatives,
            \* neg_mask[:] = False; neg_mask[selections] = True; view(bs,fh,fw)
            neg_mask   |-> [ c \in cells |-> Flat(c, fh, fw) \in selections ],
            \* negatives = neg_mask.sum()
            negatives  |-> Cardinality({ c \in cells : Flat(c, fh, fw) \in selections }),
            cls_loss   |-> ClsLoss({ c \in cells : pos_mask[c] \/ Flat(c, fh, fw) \in selections }),
            reg_loss   |-> RegLoss({ c \in cells : rpos_mask[c] }) ]
          : selections \in RandomSampleSelection(ss, negatives) }

\* ---- inputs --------------------------------------------------------------
\* ground-truth boxes (xmin, ymin, xmax, ymax) in pixels: two in the scale
\* band, one in the gray zone above it
Boxes == << <<0, 0, 2, 2>>, <<2, 2, 5, 5>>, <<0, 0, 4, 4>> >>

\* the boxes of one image: the boxes numbered in S, in order
BoxList(S) ==
    LET F[i \in 0 .. Len(Boxes)] ==
          IF i = 0 THEN << >>
          ELSE IF i \in S THEN Append(F[i - 1], Boxes[i]) ELSE F[i - 1]
    IN  F[Len(Boxes)]

GtLists == { BoxList(S) : S \in { T \in SUBSET (1 .. Len(Boxes)) : Cardinality(T) <= MaxBoxes } }

\* shapes (bs, fh, fw) of a batch
Shapes == { s \in (1 .. MaxBatch) \X (1 .. MaxFh) \X (1 .. MaxFw) :
              s[1] * s[2] * s[3] <= MaxCells }

\* the per-cell regression vectors
RegVecs == { <<0, 0, 0, 0>>, <<1, 1, -1, -1>>, <<-1, 0, 2, 1>>,
             <<MaxReg, 0 - MaxReg, 0 - MaxReg, MaxReg>> }

\* regression logits: v0 at the cells of even flat index, v1 at the odd ones
RegTensor(s, v0, v1) ==
    [ bs |-> s[1], fh |-> s[2], fw |-> s[3],
      data |-> [ c \in Cells3(s[1], s[2], s[3]) |->
                   IF Flat(c, s[2], s[3]) % 2 = 0 THEN v0 ELSE v1 ] ]

\* ---- the state machine ---------------------------------------------------
None == [ none |-> TRUE ]

Init ==
    /\ ctor \in Heads
    /\ head = InitHead(ctor).head
    /\ op = "init"
    /\ args = None
    /\ ret = None

Idle == op \in {"init", "idle"}

CallGenRfAnchors ==
    /\ Idle
    /\ \E fmaph \in -1 .. MaxFh, fmapw \in -1 .. MaxFw, clip \in BOOLEAN :
         /\ args' = [ fmaph |-> fmaph, fmapw |-> fmapw, clip |-> clip ]
         /\ ret' = GenRfAnchors(head, fmaph, fmapw, clip)
    /\ op' = "gen_rf_anchors"
    /\ UNCHANGED <<head, ctor>>

CallApplyBboxRegression ==
    /\ Idle
    /\ \E s \in Shapes, v0 \in RegVecs, v1 \in RegVecs :
         /\ args' = [ reg_logits |-> RegTensor(s, v0, v1) ]
         /\ ret' = [ raised |-> FALSE,
                     reg_logits |-> RegLogitsAfter(head, RegTensor(s, v0, v1)),
                     pred_boxes |-> ApplyBboxRegression(head, RegTensor(s, v0, v1)) ]
    /\ op' = "apply_bbox_regression"
    /\ UNCHANGED <<head, ctor>>

CallBuildTargets ==
    /\ Idle
    /\ \E s \in Shapes :
         \E gt_boxes \in [ 1 .. s[1] -> GtLists ] :
           /\ args' = [ fh |-> s[2], fw |-> s[3], gt_boxes |-> gt_boxes ]
           /\ ret' = BuildTargets(head, s[2], s[3], gt_boxes)
    /\ op' = "build_targets"
    /\ UNCHANGED <<head, ctor>>

CallComputeLoss ==
    /\ Idle
    /\ \E s \in Shapes :
         \E gt_boxes \in [ 1 .. s[1] -> GtLists ] :
           /\ args' = [ batch_size |-> s[1], fh |-> s[2], fw |-> s[3], gt_boxes |-> gt_boxes ]
           /\ ret' \in ComputeLoss(head, s[1], s[2], s[3], gt_boxes)
    /\ op' = "compute_loss"
    /\ UNCHANGED <<head, ctor>>

\* the caller drops the returned tensors; the head is ready for the next call
Discard ==
    /\ op \in {"gen_rf_anchors", "apply_bbox_regression", "build_targets", "compute_loss"}
    /\ op' = "idle"
    /\ args' = None
    /\ ret' = None
    /\ UNCHANGED <<head, ctor>>

Next ==
    \/ CallGenRfAnchors
    \/ CallApplyBboxRegression
    \/ CallBuildTargets
    \/ CallComputeLoss
    \/ Discard

Spec == Init /\ [][Next]_vars

\* ---- construction with arbitrary arguments -------------------------------
InitNew ==
    /\ ctor = None
    /\ head = None
    /\ op = "new"
    /\ args = None
    /\ ret = None

\* DetectionHead(...): a raise leaves no head, otherwise the head is ready
Construct ==
    /\ op = "new"
    /\ \E p \in CtorArgs :
         /\ ctor' = p
         /\ IF InitHead(p).raised
            THEN head' = None /\ op' = "rejected"
            ELSE head' = InitHead(p).head /\ op' = "init"
    /\ UNCHANGED <<args, ret>>

NextCtor ==
    \/ Construct
    \/ Next

SpecCtor == InitNew /\ [][NextCtor]_vars

\* ==== properties ==========================================================
\* a value clamped into [lo, hi], written out case by case
Clamped(v, lo, hi) == IF v < lo THEN lo ELSE IF v > hi THEN hi ELSE v

\* the doubled RF center of column/row k
Center2(k) == 2 * (k * head.rf_stride + head.rf_start_offset)

\* the doubled RF anchor of cell (row, col), unclipped
Anchor2(row, col) ==
    <<Center2(col) - head.rf_size, Center2(row) - head.rf_size,
      Center2(col) + head.rf_size, Center2(row) + head.rf_size>>

\* the same anchor clamped into [0, fw*rf_stride] x [0, fh*rf_stride]
ClippedAnchor2(row, col, fh, fw) ==
    <<Clamped(Anchor2(row, col)[1], 0, 2 * fw * head.rf_stride),
      Clamped(Anchor2(row, col)[2], 0, 2 * fh * head.rf_stride),
      Clamped(Anchor2(row, col)[3], 0, 2 * fw * head.rf_stride),
      Clamped(Anchor2(row, col)[4], 0, 2 * fh * head.rf_stride)>>

\* C1: gen_rf_anchors returns at every cell (row, col) of the grid the box
\* (cx - rf_size/2, cy - rf_size/2, cx + rf_size/2, cy + rf_size/2) with
\* cx = col*rf_stride + rf_start_offset, cy = row*rf_stride + rf_start_offset:
\* width and height are rf_size and adjacent centers differ by rf_stride;
\* with clip, x is clamped into [0, fmap_w*rf_stride] and y into
\* [0, fmap_h*rf_stride].
C1_AnchorGeometry ==
    (op = "gen_rf_anchors" /\ ~ret.raised) =>
      /\ DOMAIN ret.rfs = Cells2(args.fmaph, args.fmapw)
      /\ \A c \in Cells2(args.fmaph, args.fmapw) :
           IF args.clip
           THEN ret.rfs[c] = ClippedAnchor2(c[1], c[2], args.fmaph, args.fmapw)
           ELSE /\ ret.rfs[c] = Anchor2(c[1], c[2])
                /\ ret.rfs[c][3] - ret.rfs[c][1] = 2 * head.rf_size
                /\ ret.rfs[c][4] - ret.rfs[c][2] = 2 * head.rf_size
                /\ <<c[1], c[2] + 1>> \in DOMAIN ret.rfs =>
                     ret.rfs[<<c[1], c[2] + 1>>][1] - ret.rfs[c][1] = 2 * head.rf_stride
                /\ <<c[1] + 1, c[2]>> \in DOMAIN ret.rfs =>
                     ret.rfs[<<c[1] + 1, c[2]>>][2] - ret.rfs[c][2] = 2 * head.rf_stride

\* a clipped call on a 2x2 grid where one anchor was cut at 0 and one at the
\* upper bound
C1_Witness ==
    /\ op = "gen_rf_anchors" /\ ~ret.raised /\ args.clip
    /\ args.fmaph = 2 /\ args.fmapw = 2
    /\ \E c \in DOMAIN ret.rfs : Anchor2(c[1], c[2])[1] < 0 /\ ret.rfs[c][1] = 0
    /\ \E c \in DOMAIN ret.rfs :
         /\ Anchor2(c[1], c[2])[3] > 2 * args.fmapw * head.rf_stride
         /\ ret.rfs[c][3] = 2 * args.fmapw * head.rf_stride

\* C2: apply_bbox_regression returns at every cell
\* (clamp(ccx - n*r0), clamp(ccy - n*r1), clamp(ccx - n*r2), clamp(ccy - n*r3)),
\* n = rf_size/2, (ccx, ccy) the center of the cell's unclipped anchor; x is
\* clamped into [0, fw*rf_stride], y into [0, fh*rf_stride], so every output
\* coordinate lies within those bounds.
C2_DecodedBox ==
    op = "apply_bbox_regression" =>
      LET rl == args.reg_logits
      IN  /\ DOMAIN ret.pred_boxes = Cells3(rl.bs, rl.fh, rl.fw)
          /\ \A c \in Cells3(rl.bs, rl.fh, rl.fw) :
               LET r  == rl.data[c]
                   xb == 2 * rl.fw * head.rf_stride
                   yb == 2 * rl.fh * head.rf_stride
                   p  == ret.pred_boxes[c]
               IN  /\ p = <<Clamped(Center2(c[3]) - head.rf_size * r[1], 0, xb),
                            Clamped(Center2(c[2]) - head.rf_size * r[2], 0, yb),
                            Clamped(Center2(c[3]) - head.rf_size * r[3], 0, xb),
                            Clamped(Center2(c[2]) - head.rf_size * r[4], 0, yb)>>
                   /\ 0 <= p[1] /\ p[1] <= xb /\ 0 <= p[3] /\ p[3] <= xb
                   /\ 0 <= p[2] /\ p[2] <= yb /\ 0 <= p[4] /\ p[4] <= yb

\* a decode on a grid higher than wide in which, at one cell, one y value was
\* cut at the upper bound and one at 0, and at some cell an x value was left
\* as computed, strictly inside the bounds
C2_Witness ==
    /\ op = "apply_bbox_regression"
    /\ args.reg_logits.fh > args.reg_logits.fw
    /\ \E c \in DOMAIN ret.pred_boxes :
         /\ Center2(c[2]) - head.rf_size * args.reg_logits.data[c][2]
              > 2 * args.reg_logits.fh * head.rf_stride
         /\ ret.pred_boxes[c][2] = 2 * args.reg_logits.fh * head.rf_stride
         /\ Center2(c[2]) - head.rf_size * args.reg_logits.data[c][4] < 0
         /\ ret.pred_boxes[c][4] = 0
    /\ \E c \in DOMAIN ret.pred_boxes :
         /\ ret.pred_boxes[c][1] = Center2(c[3]) - head.rf_size * args.reg_logits.data[c][1]
         /\ 0 < ret.pred_boxes[c][1]
         /\ ret.pred_boxes[c][1] < 2 * args.reg_logits.fw * head.rf_stride

\* C3 as stated: an all-zero regression vector decodes to the cell's RF
\* anchor as gen_rf_anchors produces it (with or without clip).
C3_ZeroDecodesToAnchor ==
    op = "apply_bbox_regression" =>
      LET rl == args.reg_logits
      IN  \A c \in Cells3(rl.bs, rl.fh, rl.fw) :
            rl.data[c] = <<0, 0, 0, 0>> =>
              \/ ret.pred_boxes[c] = GenRfAnchors(head, rl.fh, rl.fw, FALSE).rfs[<<c[2], c[3]>>]
              \/ ret.pred_boxes[c] = GenRfAnchors(head, rl.fh, rl.fw, TRUE).rfs[<<c[2], c[3]>>]

\* C3 amended: the regression vector (1, 1, -1, -1) decodes to the cell's RF
\* anchor as gen_rf_anchors produces it with clip set; the all-zero vector
\* decodes to the anchor's center (clamped), a box of no extent.
C3_UnitDecodesToClippedAnchor ==
    op = "apply_bbox_regression" =>
      LET rl == args.reg_logits
      IN  \A c \in Cells3(rl.bs, rl.fh, rl.fw) :
            /\ rl.data[c] = <<1, 1, -1, -1>> =>
                 ret.pred_boxes[c] = GenRfAnchors(head, rl.fh, rl.fw, TRUE).rfs[<<c[2], c[3]>>]
            /\ rl.data[c] = <<0, 0, 0, 0>> =>
                 /\ ret.pred_boxes[c][1] = ret.pred_boxes[c][3]
                 /\ ret.pred_boxes[c][2] = ret.pred_boxes[c][4]

\* a cell decoded from (1, 1, -1, -1) whose anchor reaches outside the bounds
C3_Witness ==
    /\ op = "apply_bbox_regression"
    /\ \E c \in DOMAIN ret.pred_boxes :
         /\ args.reg_logits.data[c] = <<1, 1, -1, -1>>
         /\ ret.pred_boxes[c] # Anchor2(c[2], c[3])
         /\ ret.pred_boxes[c][1] < ret.pred_boxes[c][3]

\* the cells of the batch compute_loss was called on
LossCells == Cells3(args.batch_size, args.fh, args.fw)

\* positive, negative-candidate, ignored and sampled cells, from the targets
Positives  == { c \in LossCells : ret.target_cls[c] = 1 /\ ~ret.ignore[c] }
Candidates == { c \in LossCells : ret.target_cls[c] = 0 /\ ~ret.ignore[c] }
Ignored    == { c \in LossCells : ret.ignore[c] }
Sampled    == { c \in LossCells : ret.neg_mask[c] }

\* C4: with at least one positive cell, the sampled negatives are distinct
\* negative candidates, exactly min(|candidates|, 5 * positives) of them, so
\* never more than 5 times the positives; with no candidate the
\* classification loss is over the positives alone.
C4_NegativeSampling ==
    (op = "compute_loss" /\ Cardinality(Positives) > 0) =>
      /\ Sampled \subseteq Candidates
      /\ Cardinality(Sampled) =
           IF Cardinality(Candidates) <= 5 * Cardinality(Positives)
           THEN Cardinality(Candidates) ELSE 5 * Cardinality(Positives)
      /\ ret.negatives = Cardinality(Sampled)
      /\ ret.negatives <= 5 * Cardinality(Positives)
      /\ ret.cls_loss.over = Positives \cup Sampled
      /\ Candidates = {} => ret.cls_loss.over = Positives

\* a batch with more than 5 candidates per positive: the cap decides
C4_Witness ==
    /\ op = "compute_loss"
    /\ Cardinality(Positives) > 0
    /\ Cardinality(Candidates) > 5 * Cardinality(Positives)
    /\ Cardinality(Sampled) = 5 * Cardinality(Positives)

\* C5 as stated: with zero positive cells exactly batch_size negatives are
\* retained, so the classification loss is never over an empty set.
C5_FloorOfBatchSize ==
    (op = "compute_loss" /\ Cardinality(Positives) = 0) =>
      /\ Cardinality(Sampled) = args.batch_size
      /\ ret.cls_loss.over # {}

\* C6: the regression loss is over exactly the cells whose class target is 1,
\* ignored or not; with no such cell it is exactly zero, and compute_loss
\* returns both losses without raising.
C6_RegressionMask ==
    op = "compute_loss" =>
      LET rpos == { c \in LossCells : ret.target_cls[c] = 1 }
      IN  /\ ret.reg_loss.over = rpos
          /\ rpos = {} => ret.reg_loss.kind = "zero"
          /\ rpos # {} => ret.reg_loss.kind = "mse"
          /\ ~ret.raised
          /\ ret.cls_loss.kind \in {"bce", "nan"}

\* an ignored cell of class target 1 is in the regression loss
C6_Witness ==
    /\ op = "compute_loss"
    /\ \E c \in LossCells :
         ret.target_cls[c] = 1 /\ ret.ignore[c] /\ c \in ret.reg_loss.over
    /\ \E c \in LossCells : ret.target_cls[c] = 0

\* no cell of class target 1: the regression loss is the literal zero
C6_WitnessZero ==
    /\ op = "compute_loss"
    /\ \A c \in LossCells : ret.target_cls[c] = 0
    /\ ret.reg_loss.kind = "zero"

\* C7 as stated: an ignored cell is in neither the classification loss's
\* set nor the regression loss's set.
C7_IgnoredExcludedEntirely ==
    op = "compute_loss" =>
      \A c \in Ignored : c \notin ret.cls_loss.over /\ c \notin ret.reg_loss.over

\* C7 amended: an ignored cell is never in the classification loss's set,
\* neither as positive nor as sampled negative; it is in the regression
\* loss's set exactly when its class target is 1.
C7_IgnoredExcludedFromCls ==
    op = "compute_loss" =>
      \A c \in Ignored :
        /\ c \notin ret.cls_loss.over
        /\ ~ret.pos_mask[c]
        /\ ~ret.neg_mask[c]
        /\ c \in ret.reg_loss.over <=> ret.target_cls[c] = 1

\* an ignored cell of class target 1 next to a non-empty classification set
C7_Witness ==
    /\ op = "compute_loss"
    /\ \E c \in Ignored : ret.target_cls[c] = 1
    /\ Positives # {}
    /\ Sampled # {}

\* C8: the three cell sets of compute_loss partition the grid: every cell is
\* in exactly one of positive, negative candidate or ignored, and every
\* class target is 0 or 1.
C8_Partition ==
    op = "compute_loss" =>
      /\ DOMAIN ret.target_cls = LossCells
      /\ \A c \in LossCells :
           /\ ret.target_cls[c] \in {0, 1}
           /\ ret.pos_mask[c] <=> (ret.target_cls[c] = 1 /\ ~ret.ignore[c])
           /\ ret.candidates[c] <=> (ret.target_cls[c] = 0 /\ ~ret.ignore[c])
           /\ Cardinality({ k \in 1 .. 3 :
                  <<ret.pos_mask[c], ret.candidates[c], ret.ignore[c]>>[k] }) = 1

\* a batch with positive, candidate and ignored cells, one ignored cell
\* having class target 1
C8_Witness ==
    /\ op = "compute_loss"
    /\ Positives # {} /\ Candidates # {}
    /\ \E c \in Ignored : ret.target_cls[c] = 1
    /\ \E c \in Ignored : ret.target_cls[c] = 0

\* C9: build_targets treats each image on its own: slice i of the class
\* targets is 1 exactly where the matcher's class mask for gt_boxes[i] is
\* true and 0 elsewhere, slices i of the regression targets and the ignore
\* mask are the matcher's outputs for gt_boxes[i]; so images with the same
\* boxes get the same slices whatever the other images and their order.
C9_PerImageTargets ==
    op = "build_targets" =>
      LET bs == Len(args.gt_boxes)
          anchors == [ c \in Cells2(args.fh, args.fw) |-> Anchor2(c[1], c[2]) ]
      IN  /\ DOMAIN ret.t_cls = Cells3(bs, args.fh, args.fw)
          /\ \A i \in 0 .. (bs - 1) :
               LET m == Matcher(head, anchors, args.gt_boxes[i + 1], head.rf_size)
               IN  \A c \in Cells2(args.fh, args.fw) :
                     /\ ret.t_cls[<<i, c[1], c[2]>>] = IF m.cls_mask[c] THEN 1 ELSE 0
                     /\ ret.t_regs[<<i, c[1], c[2]>>] = m.reg_targets[c]
                     /\ ret.ignore[<<i, c[1], c[2]>>] = m.ignore_mask[c]
          /\ \A i, j \in 0 .. (bs - 1) :
               args.gt_boxes[i + 1] = args.gt_boxes[j + 1] =>
                 \A c \in Cells2(args.fh, args.fw) :
                   /\ ret.t_cls[<<i, c[1], c[2]>>] = ret.t_cls[<<j, c[1], c[2]>>]
                   /\ ret.t_regs[<<i, c[1], c[2]>>] = ret.t_regs[<<j, c[1], c[2]>>]
                   /\ ret.ignore[<<i, c[1], c[2]>>] = ret.ignore[<<j, c[1], c[2]>>]

\* two images of one batch whose class targets differ at a cell, the second
\* image being the one without a positive there
C9_Witness ==
    /\ op = "build_targets"
    /\ Len(args.gt_boxes) = 2
    /\ \E c \in Cells2(args.fh, args.fw) :
         /\ ret.t_cls[<<0, c[1], c[2]>>] = 1
         /\ ret.t_cls[<<1, c[1], c[2]>>] = 0
         /\ ret.ignore[<<1, c[1], c[2]>>]

\* C10 as stated: gen_rf_anchors called with a height or width that is zero
\* or negative returns an empty grid instead of raising.
C10_NoErrorPath ==
    (op = "gen_rf_anchors" /\ (args.fmaph <= 0 \/ args.fmapw <= 0)) =>
      ~ret.raised /\ DOMAIN ret.rfs = {}

\* C10 amended: called with a height or width of zero (and neither
\* negative) gen_rf_anchors returns an empty grid without raising; it raises
\* exactly when the height or the width is negative.
C10_ZeroIsEmptyNegativeRaises ==
    op = "gen_rf_anchors" =>
      /\ ret.raised <=> (args.fmaph < 0 \/ args.fmapw < 0)
      /\ (~ret.raised /\ (args.fmaph = 0 \/ args.fmapw = 0)) => DOMAIN ret.rfs = {}

\* a call with height zero and a positive width returned an empty grid
C10_Witness ==
    /\ op = "gen_rf_anchors"
    /\ args.fmaph = 0 /\ args.fmapw > 0
    /\ ~ret.raised
    /\ DOMAIN ret.rfs = {}

\* C11 as stated: a head constructed with a non-positive rf_size or with
\* upper_scale <= lower_scale is rejected by the constructor, so no such
\* head reaches gen_rf_anchors, apply_bbox_regression, build_targets or
\* compute_loss.
C11_InvalidGeometryRejected ==
    op \in {"gen_rf_anchors", "apply_bbox_regression", "build_targets", "compute_loss"} =>
      /\ head.rf_size > 0
      /\ head.upper_scale > head.lower_scale

====
